---- MODULE Spec2Model ----
(***************************************************************************)
(* Model of the vec dynamic array of Costava/c-list (vec.h, size_t         *)
(* variant): one vec struct, the public functions generated by             *)
(* VEC_GENERATE_IMPLEMENTATION_CODE and the two static helpers             *)
(* _reallocate_buf and _ensure_space.                                      *)
(*                                                                         *)
(* The size type is scaled down: size_t holds 0..SIZE_MAX and every        *)
(* size_t computation is reduced modulo SIZE_MAX + 1.  C index i of the    *)
(* buffer is slot i + 1 of the sequence vec.buf.                           *)
(***************************************************************************)
EXTENDS Integers, Sequences, FiniteSets, TLC

\* ------------------------------------------------------------------------
\* Bounds of the model
\* ------------------------------------------------------------------------

\* Largest value of the (scaled) size type.
SIZE_MAX == 5

\* Element values are 0..MaxVal.
MaxVal == 1

\* Largest sizeof(type) among the instantiated element types.
MaxElemSize == 2

\* Largest number of push_back calls before the pop_back calls of the caller
\* that fills, empties, shrinks and refills a vec.
MaxPushes == 2

\* ------------------------------------------------------------------------
\* Program constants
\* ------------------------------------------------------------------------

VEC_GROW_MODE_MULTIPLY == 1

VEC_GROW_MODE_ADD == 2

VEC_MAX_CAPACITY == SIZE_MAX - 1

\* ------------------------------------------------------------------------
\* Modelling values
\* ------------------------------------------------------------------------

\* The null pointer.  The code never requests a block of zero bytes, so the
\* block of zero slots is free to stand for "no block".
NULL == <<>>

\* Content of a slot that was allocated by realloc and never written, and
\* result of a load outside the allocated block.
Indeterminate == 0 - 1

\* Return value of a function returning void.
Void == 0 - 2

\* Outcome "the division traps" of a division by zero.
Trap == 0 - 1

Vals == 0..MaxVal

SizeT == 0..SIZE_MAX

ElemSizes == 1..MaxElemSize

\* grow_mode is a uint8_t; 3 stands for every value that is neither constant.
GrowModes == {VEC_GROW_MODE_MULTIPLY, VEC_GROW_MODE_ADD, 3}

\* Outcomes of the undefined division new_capacity / 0: a trap, or any
\* quotient.
DivZeroOutcomes == SizeT \cup {Trap}

\* Arguments tried by the callers.
GrowVals == {0, 1, 2, SIZE_MAX}

\* Indices tried on a vec of the given length: every valid one, the first
\* invalid one and the largest of the size type.
Indices(length) == {i \in SizeT : i <= length + 1} \cup {SIZE_MAX}

\* What the environment decides during an insertion: whether the allocator
\* succeeds (ok), whether an access outside the block traps (trap) and the
\* outcome of a division by zero (q).  The allocator is only reached when the
\* vec is full and the division by zero only when the capacity is 0.
Envs(v) ==
    IF v.length # v.capacity
    THEN {[ok |-> TRUE, trap |-> FALSE, q |-> 0]}
    ELSE {[ok |-> o, trap |-> t, q |-> d] :
            o \in BOOLEAN, t \in BOOLEAN,
            d \in (IF v.capacity = 0 THEN DivZeroOutcomes ELSE {0})}

VARIABLES
    vec,         \* the struct: buf, length, capacity, grow_mode, grow_val
    status,      \* "uninit", "live", "exited" (exit(1)), "crashed" (trap),
                 \* "corrupted" (a store outside the block went unnoticed)
    sizeof_type, \* sizeof(type) of the instantiation
    last,        \* history: the last call, its arguments, result and pre-state
    run          \* history: the current run of push_back / pop_back calls, or
                 \* (refilling caller) the calls made so far

vars == <<vec, status, sizeof_type, last, run>>

\* size_t arithmetic wraps around.
Wrap(x) == x % (SIZE_MAX + 1)

\* Result of a function: the struct as the function left it, how the
\* function ended and what it returned.
Res(v, st, ret) == [vec |-> v, st |-> st, ret |-> ret]

\* ------------------------------------------------------------------------
\* The allocator
\* ------------------------------------------------------------------------

\* calloc(num, size): zero-filled block of num slots, or NULL when the
\* allocator fails (ok = FALSE) or num * size is not representable.
calloc(num, size, ok) ==
    IF ok /\ num * size <= SIZE_MAX
    THEN [i \in 1..num |-> 0]
    ELSE NULL

\* realloc(ptr, new_size): block of new_size bytes keeping the old content up
\* to the smaller of the two sizes, the rest indeterminate; NULL on failure.
realloc(ptr, new_size, ok) ==
    IF ok
    THEN [i \in 1..(new_size \div sizeof_type) |->
            IF i <= Len(ptr) THEN ptr[i] ELSE Indeterminate]
    ELSE NULL

\* free(ptr) releases the block ptr points to; free(NULL) does nothing.
Releases(ptr) == ptr # NULL

\* Load of buf[i]; outside the block the value is indeterminate.
Load(buf, i) == IF i + 1 \in DOMAIN buf THEN buf[i + 1] ELSE Indeterminate

\* Store buf[i] = x; outside the block the store does not reach the block.
Store(buf, i, x) == IF i + 1 \in DOMAIN buf THEN [buf EXCEPT ![i + 1] = x] ELSE buf

\* ------------------------------------------------------------------------
\* Static helpers
\* ------------------------------------------------------------------------

\* vec_reallocate_buf without the check of the byte count.
vec_reallocate_buf_no_overflow_check(v, ok) ==
    LET new_size == Wrap(sizeof_type * v.capacity) IN
    IF new_size > 0
    THEN LET p == realloc(v.buf, new_size, ok) IN
         IF p = NULL
         THEN Res([v EXCEPT !.buf = NULL], "exit", Void)
         ELSE Res([v EXCEPT !.buf = p], "ok", Void)
    ELSE Res([v EXCEPT !.buf = NULL], "ok", Void)

vec_reallocate_buf(v, ok) ==
    LET new_size == Wrap(sizeof_type * v.capacity) IN
    IF (new_size \div sizeof_type) # v.capacity
    THEN Res(v, "exit", Void)
    ELSE IF new_size > 0
         THEN LET p == realloc(v.buf, new_size, ok) IN
              IF p = NULL
              THEN Res([v EXCEPT !.buf = NULL], "exit", Void)
              ELSE Res([v EXCEPT !.buf = p], "ok", Void)
         ELSE Res([v EXCEPT !.buf = NULL], "ok", Void)

\* vec_ensure_space whose switch has no default case: every grow_mode other
\* than multiply is handled as add.
vec_ensure_space_no_default_case(v, ok, q) ==
    IF v.length = v.capacity
    THEN IF v.capacity = VEC_MAX_CAPACITY
         THEN Res(v, "exit", Void)
         ELSE IF v.capacity > VEC_MAX_CAPACITY
         THEN Res(v, "exit", Void)
         ELSE IF v.grow_mode = VEC_GROW_MODE_MULTIPLY
         THEN LET new_capacity == Wrap(v.capacity * v.grow_val)
                  quot == IF v.capacity = 0 THEN q
                          ELSE new_capacity \div v.capacity
              IN IF quot = Trap
                 THEN Res(v, "crash", Void)
                 ELSE vec_reallocate_buf(
                        [v EXCEPT !.capacity =
                            IF quot # v.grow_val THEN VEC_MAX_CAPACITY
                            ELSE new_capacity], ok)
         ELSE IF v.capacity <= Wrap(VEC_MAX_CAPACITY - v.grow_val)
              THEN vec_reallocate_buf(
                     [v EXCEPT !.capacity = Wrap(v.capacity + v.grow_val)], ok)
              ELSE vec_reallocate_buf(
                     [v EXCEPT !.capacity = VEC_MAX_CAPACITY], ok)
    ELSE IF v.length > v.capacity
         THEN Res(v, "exit", Void)
         ELSE Res(v, "ok", Void)

\* vec_ensure_space that takes the product for overflowed when it is smaller
\* than the capacity, in place of the check by division.
vec_ensure_space_overflow_by_comparison(v, ok, q) ==
    IF v.length = v.capacity
    THEN IF v.capacity = VEC_MAX_CAPACITY
         THEN Res(v, "exit", Void)
         ELSE IF v.capacity > VEC_MAX_CAPACITY
         THEN Res(v, "exit", Void)
         ELSE IF v.grow_mode = VEC_GROW_MODE_MULTIPLY
         THEN LET new_capacity == Wrap(v.capacity * v.grow_val)
              IN vec_reallocate_buf(
                   [v EXCEPT !.capacity =
                       IF new_capacity < v.capacity THEN VEC_MAX_CAPACITY
                       ELSE new_capacity], ok)
         ELSE IF v.grow_mode = VEC_GROW_MODE_ADD
         THEN IF v.capacity <= Wrap(VEC_MAX_CAPACITY - v.grow_val)
              THEN vec_reallocate_buf(
                     [v EXCEPT !.capacity = Wrap(v.capacity + v.grow_val)], ok)
              ELSE vec_reallocate_buf(
                     [v EXCEPT !.capacity = VEC_MAX_CAPACITY], ok)
         ELSE Res(v, "exit", Void)
    ELSE IF v.length > v.capacity
         THEN Res(v, "exit", Void)
         ELSE Res(v, "ok", Void)

\* vec_ensure_space without the check "vec->capacity > VEC_MAX_CAPACITY".
vec_ensure_space_no_invalid_capacity_check(v, ok, q) ==
    IF v.length = v.capacity
    THEN IF v.capacity = VEC_MAX_CAPACITY
         THEN Res(v, "exit", Void)
         ELSE IF v.grow_mode = VEC_GROW_MODE_MULTIPLY
         THEN LET new_capacity == Wrap(v.capacity * v.grow_val)
                  quot == IF v.capacity = 0 THEN q
                          ELSE new_capacity \div v.capacity
              IN IF quot = Trap
                 THEN Res(v, "crash", Void)
                 ELSE vec_reallocate_buf(
                        [v EXCEPT !.capacity =
                            IF quot # v.grow_val THEN VEC_MAX_CAPACITY
                            ELSE new_capacity], ok)
         ELSE IF v.grow_mode = VEC_GROW_MODE_ADD
         THEN IF v.capacity <= Wrap(VEC_MAX_CAPACITY - v.grow_val)
              THEN vec_reallocate_buf(
                     [v EXCEPT !.capacity = Wrap(v.capacity + v.grow_val)], ok)
              ELSE vec_reallocate_buf(
                     [v EXCEPT !.capacity = VEC_MAX_CAPACITY], ok)
         ELSE Res(v, "exit", Void)
    ELSE IF v.length > v.capacity
         THEN Res(v, "exit", Void)
         ELSE Res(v, "ok", Void)

\* vec_ensure_space without the check "vec->capacity == VEC_MAX_CAPACITY".
vec_ensure_space_no_ceiling_check(v, ok, q) ==
    IF v.length = v.capacity
    THEN IF v.capacity > VEC_MAX_CAPACITY
         THEN Res(v, "exit", Void)
         ELSE IF v.grow_mode = VEC_GROW_MODE_MULTIPLY
         THEN LET new_capacity == Wrap(v.capacity * v.grow_val)
                  quot == IF v.capacity = 0 THEN q
                          ELSE new_capacity \div v.capacity
              IN IF quot = Trap
                 THEN Res(v, "crash", Void)
                 ELSE vec_reallocate_buf(
                        [v EXCEPT !.capacity =
                            IF quot # v.grow_val THEN VEC_MAX_CAPACITY
                            ELSE new_capacity], ok)
         ELSE IF v.grow_mode = VEC_GROW_MODE_ADD
         THEN IF v.capacity <= Wrap(VEC_MAX_CAPACITY - v.grow_val)
              THEN vec_reallocate_buf(
                     [v EXCEPT !.capacity = Wrap(v.capacity + v.grow_val)], ok)
              ELSE vec_reallocate_buf(
                     [v EXCEPT !.capacity = VEC_MAX_CAPACITY], ok)
         ELSE Res(v, "exit", Void)
    ELSE IF v.length > v.capacity
         THEN Res(v, "exit", Void)
         ELSE Res(v, "ok", Void)

\* q is the outcome of the division when vec->capacity is 0.
vec_ensure_space(v, ok, q) ==
    IF v.length = v.capacity
    THEN IF v.capacity = VEC_MAX_CAPACITY
         THEN Res(v, "exit", Void)
         ELSE IF v.capacity > VEC_MAX_CAPACITY
         THEN Res(v, "exit", Void)
         ELSE IF v.grow_mode = VEC_GROW_MODE_MULTIPLY
         THEN LET new_capacity == Wrap(v.capacity * v.grow_val)
                  quot == IF v.capacity = 0 THEN q
                          ELSE new_capacity \div v.capacity
              IN IF quot = Trap
                 THEN Res(v, "crash", Void)
                 ELSE vec_reallocate_buf(
                        [v EXCEPT !.capacity =
                            IF quot # v.grow_val THEN VEC_MAX_CAPACITY
                            ELSE new_capacity], ok)
         ELSE IF v.grow_mode = VEC_GROW_MODE_ADD
         THEN IF v.capacity <= Wrap(VEC_MAX_CAPACITY - v.grow_val)
              THEN vec_reallocate_buf(
                     [v EXCEPT !.capacity = Wrap(v.capacity + v.grow_val)], ok)
              ELSE vec_reallocate_buf(
                     [v EXCEPT !.capacity = VEC_MAX_CAPACITY], ok)
         ELSE Res(v, "exit", Void)
    ELSE IF v.length > v.capacity
         THEN Res(v, "exit", Void)
         ELSE Res(v, "ok", Void)

\* ------------------------------------------------------------------------
\* Public functions
\* ------------------------------------------------------------------------

\* vec_deinit without "vec->capacity = 0".
vec_deinit_keeps_capacity(v) ==
    Res([v EXCEPT !.buf = NULL, !.length = 0], "ok", Void)

\* vec_deinit without "vec->buf = NULL".
vec_deinit_keeps_buf(v) ==
    Res([v EXCEPT !.length = 0, !.capacity = 0], "ok", Void)

\* vec_deinit that clears the whole struct.
vec_deinit_clears_policy(v) ==
    Res([v EXCEPT !.buf = NULL, !.length = 0, !.capacity = 0,
                  !.grow_mode = 0, !.grow_val = 0], "ok", Void)

vec_deinit(v) ==
    Res([v EXCEPT !.buf = NULL, !.length = 0, !.capacity = 0], "ok", Void)

\* vec_init with "vec->capacity = grow_val" for "vec->capacity = capacity".
vec_init_capacity_mixed_up(v, capacity, grow_mode, grow_val, ok) ==
    LET p == IF capacity > 0 THEN calloc(capacity, sizeof_type, ok) ELSE NULL
        v1 == [v EXCEPT !.buf = p]
        v2 == [v1 EXCEPT !.length = 0, !.capacity = grow_val,
                         !.grow_mode = grow_mode]
    IN IF capacity > 0 /\ p = NULL
       THEN Res(v1, "exit", Void)
       ELSE IF grow_val = 0
       THEN Res(v2, "exit", Void)
       ELSE IF grow_mode = VEC_GROW_MODE_MULTIPLY /\ grow_val = 1
       THEN Res(v2, "exit", Void)
       ELSE Res([v2 EXCEPT !.grow_val = grow_val], "ok", Void)

\* vec_init without the check of grow_val in multiply mode.
vec_init_no_multiply_check(v, capacity, grow_mode, grow_val, ok) ==
    LET p == IF capacity > 0 THEN calloc(capacity, sizeof_type, ok) ELSE NULL
        v1 == [v EXCEPT !.buf = p]
        v2 == [v1 EXCEPT !.length = 0, !.capacity = capacity,
                         !.grow_mode = grow_mode]
    IN IF capacity > 0 /\ p = NULL
       THEN Res(v1, "exit", Void)
       ELSE IF grow_val = 0
       THEN Res(v2, "exit", Void)
       ELSE Res([v2 EXCEPT !.grow_val = grow_val], "ok", Void)

vec_init(v, capacity, grow_mode, grow_val, ok) ==
    LET p == IF capacity > 0 THEN calloc(capacity, sizeof_type, ok) ELSE NULL
        v1 == [v EXCEPT !.buf = p]
        v2 == [v1 EXCEPT !.length = 0, !.capacity = capacity,
                         !.grow_mode = grow_mode]
    IN IF capacity > 0 /\ p = NULL
       THEN Res(v1, "exit", Void)
       ELSE IF grow_val = 0
       THEN Res(v2, "exit", Void)
       ELSE IF grow_mode = VEC_GROW_MODE_MULTIPLY /\ grow_val = 1
       THEN Res(v2, "exit", Void)
       ELSE Res([v2 EXCEPT !.grow_val = grow_val], "ok", Void)

\* End of an insertion whose stores went up to index top: when top lies
\* outside the block the behaviour is undefined: a trap, or silent
\* corruption of memory that is not the block.
Stored(v, top, trap) ==
    IF top + 1 \in DOMAIN v.buf
    THEN Res(v, "ok", Void)
    ELSE Res(v, IF trap THEN "crash" ELSE "corrupt", Void)

vec_push_back(v, val, ok, q, trap) ==
    LET e == vec_ensure_space(v, ok, q) IN
    IF e.st # "ok" THEN e
    ELSE Stored([e.vec EXCEPT !.buf = Store(e.vec.buf, e.vec.length, val),
                              !.length = Wrap(e.vec.length + 1)],
                e.vec.length, trap)

\* vec_pop_back returning buf[length] as it was before "length -= 1".
vec_pop_back_off_by_one(v) ==
    IF v.length = 0
    THEN Res(v, "exit", Void)
    ELSE Res([v EXCEPT !.length = Wrap(v.length - 1)], "ok",
             Load(v.buf, v.length))

\* vec_pop_back that gives the buffer back when the vec becomes empty.
vec_pop_back_shrinks_when_empty(v) ==
    IF v.length = 0
    THEN Res(v, "exit", Void)
    ELSE LET v1 == [v EXCEPT !.length = Wrap(v.length - 1)]
         IN IF v1.length = 0
            THEN Res([v1 EXCEPT !.capacity = 0, !.buf = NULL], "ok",
                     Load(v1.buf, v1.length))
            ELSE Res(v1, "ok", Load(v1.buf, v1.length))

vec_pop_back(v) ==
    IF v.length = 0
    THEN Res(v, "exit", Void)
    ELSE LET v1 == [v EXCEPT !.length = Wrap(v.length - 1)]
         IN Res(v1, "ok", Load(v1.buf, v1.length))

\* vec_shrink_to_fit without "vec->capacity = vec->length".
vec_shrink_to_fit_keeps_capacity(v, ok) ==
    vec_reallocate_buf(v, ok)

vec_shrink_to_fit(v, ok) ==
    vec_reallocate_buf([v EXCEPT !.capacity = v.length], ok)

\* The loop of _insert_at_shift:
\* for (i = vec->length; i > index + 1; i -= 1) buf[i] = buf[i - 1];
RECURSIVE ShiftUp(_, _, _)
ShiftUp(buf, i, index) ==
    IF i > Wrap(index + 1)
    THEN ShiftUp(Store(buf, i, Load(buf, Wrap(i - 1))), Wrap(i - 1), index)
    ELSE buf

\* Number of times the body of the loop of _insert_at_shift runs; a loop
\* over a size_t that has run more than SIZE_MAX + 1 times is in a state it
\* was in before and never ends, so the count stops there.
RECURSIVE ShiftUpIterations(_, _, _)

\* The count for a loop "for (i = vec->length; i >= index; i -= 1)".
ShiftUpIterations_down_to_index(i, index, done) ==
    IF i >= index /\ done <= SIZE_MAX + 1
    THEN ShiftUpIterations(Wrap(i - 1), index, done + 1)
    ELSE done

ShiftUpIterations(i, index, done) ==
    IF i > Wrap(index + 1) /\ done <= SIZE_MAX + 1
    THEN ShiftUpIterations(Wrap(i - 1), index, done + 1)
    ELSE done

\* vec_insert_at_shift without the branch "if (index == vec->length)": an
\* append goes through the shifting code.
vec_insert_at_shift_no_append_branch(v, val, index, ok, q, trap) ==
    IF index > v.length
    THEN Res(v, "exit", Void)
    ELSE LET e == vec_ensure_space(v, ok, q) IN
         IF e.st # "ok" THEN e
         ELSE LET b1 == ShiftUp(e.vec.buf, e.vec.length, index)
                  b2 == Store(b1, Wrap(index + 1), Load(b1, index))
                  b3 == Store(b2, index, val)
              IN Stored([e.vec EXCEPT !.buf = b3,
                                      !.length = Wrap(e.vec.length + 1)],
                        e.vec.length, trap)

vec_insert_at_shift(v, val, index, ok, q, trap) ==
    IF index > v.length
    THEN Res(v, "exit", Void)
    ELSE LET e == vec_ensure_space(v, ok, q) IN
         IF e.st # "ok" THEN e
         ELSE IF index = v.length
         THEN Stored([e.vec EXCEPT !.buf = Store(e.vec.buf, index, val),
                                   !.length = Wrap(e.vec.length + 1)],
                     index, trap)
         ELSE LET b1 == ShiftUp(e.vec.buf, e.vec.length, index)
                  b2 == Store(b1, Wrap(index + 1), Load(b1, index))
                  b3 == Store(b2, index, val)
              IN Stored([e.vec EXCEPT !.buf = b3,
                                      !.length = Wrap(e.vec.length + 1)],
                        e.vec.length, trap)

\* vec_insert_at_swap with the check of index made after _ensure_space.
vec_insert_at_swap_check_after_growth(v, val, index, ok, q, trap) ==
    LET e == vec_ensure_space(v, ok, q) IN
    IF e.st # "ok" THEN e
    ELSE IF index > v.length
    THEN Res(e.vec, "exit", Void)
    ELSE IF index = v.length
    THEN Stored([e.vec EXCEPT !.buf = Store(e.vec.buf, index, val),
                              !.length = Wrap(e.vec.length + 1)],
                index, trap)
    ELSE LET b1 == Store(e.vec.buf, e.vec.length, Load(e.vec.buf, index))
             b2 == Store(b1, index, val)
         IN Stored([e.vec EXCEPT !.buf = b2,
                                 !.length = Wrap(e.vec.length + 1)],
                   e.vec.length, trap)

vec_insert_at_swap(v, val, index, ok, q, trap) ==
    IF index > v.length
    THEN Res(v, "exit", Void)
    ELSE LET e == vec_ensure_space(v, ok, q) IN
         IF e.st # "ok" THEN e
         ELSE IF index = v.length
         THEN Stored([e.vec EXCEPT !.buf = Store(e.vec.buf, index, val),
                                   !.length = Wrap(e.vec.length + 1)],
                     index, trap)
         ELSE LET b1 == Store(e.vec.buf, e.vec.length, Load(e.vec.buf, index))
                  b2 == Store(b1, index, val)
              IN Stored([e.vec EXCEPT !.buf = b2,
                                      !.length = Wrap(e.vec.length + 1)],
                        e.vec.length, trap)

\* The loop of _remove_at_shift:
\* for (i = index; i < vec->length; i += 1) buf[i] = buf[i + 1];
RECURSIVE ShiftDown(_, _, _)
ShiftDown(buf, i, length) ==
    IF i < length
    THEN ShiftDown(Store(buf, i, Load(buf, Wrap(i + 1))), Wrap(i + 1), length)
    ELSE buf

\* Number of times the body of the loop of _remove_at_shift runs.
RECURSIVE ShiftDownIterations(_, _, _)
ShiftDownIterations(i, length, done) ==
    IF i < length /\ done <= SIZE_MAX + 1
    THEN ShiftDownIterations(Wrap(i + 1), length, done + 1)
    ELSE done

\* vec_remove_at_shift with the loop started at index + 1.
vec_remove_at_shift_loop_from_next(v, index) ==
    IF index >= v.length
    THEN Res(v, "exit", Void)
    ELSE LET result == Load(v.buf, index)
             length == Wrap(v.length - 1)
         IN Res([v EXCEPT !.length = length,
                          !.buf = ShiftDown(v.buf, Wrap(index + 1), length)],
                "ok", result)

vec_remove_at_shift(v, index) ==
    IF index >= v.length
    THEN Res(v, "exit", Void)
    ELSE LET result == Load(v.buf, index)
             length == Wrap(v.length - 1)
         IN Res([v EXCEPT !.length = length,
                          !.buf = ShiftDown(v.buf, index, length)],
                "ok", result)

\* vec_remove_at_swap with "vec->length -= 1" made before the copy of the
\* last element.
vec_remove_at_swap_length_first(v, index) ==
    IF index >= v.length
    THEN Res(v, "exit", Void)
    ELSE LET result == Load(v.buf, index)
             v1 == [v EXCEPT !.length = Wrap(v.length - 1)]
         IN Res([v1 EXCEPT !.buf = Store(v1.buf, index,
                                         Load(v1.buf, Wrap(v1.length - 1)))],
                "ok", result)

vec_remove_at_swap(v, index) ==
    IF index >= v.length
    THEN Res(v, "exit", Void)
    ELSE LET result == Load(v.buf, index) IN
         Res([v EXCEPT !.buf = Store(v.buf, index,
                                     Load(v.buf, Wrap(v.length - 1))),
                       !.length = Wrap(v.length - 1)],
             "ok", result)

\* ------------------------------------------------------------------------
\* History
\* ------------------------------------------------------------------------

\* The struct before _init: no member has been written yet.
NoVec == [buf |-> NULL, length |-> 0, capacity |-> 0,
          grow_mode |-> 0, grow_val |-> 0]

\* No call is waiting to be taken note of by the caller.
NoCall == [op |-> "none", args |-> <<>>, ret |-> Void, pre |-> NoVec]

Call(op, args, r, pre) == [op |-> op, args |-> args, ret |-> r.ret, pre |-> pre]

\* How a function's end shows in the status of the process.
After(st) ==
    CASE st = "ok" -> "live"
      [] st = "exit" -> "exited"
      [] st = "crash" -> "crashed"
      [] st = "corrupt" -> "corrupted"

\* The caller calls op with args and the call ends as r tells.  A call is
\* made only after the call before it has returned (last = NoCall); the
\* actions state this before they choose their arguments as well.
Step(op, args, r) ==
    /\ last = NoCall
    /\ vec' = r.vec
    /\ status' = After(r.st)
    /\ last' = Call(op, args, r, vec)
    /\ UNCHANGED sizeof_type

Finish(op, args, r) ==
    /\ Step(op, args, r)
    /\ UNCHANGED run

\* No run of push_back calls followed by pop_back calls is being followed.
NoRun == [on |-> FALSE, base |-> <<>>, pushed |-> <<>>, popped |-> <<>>]

\* The elements of the vec: what buf[0 .. length - 1] reads as.
Elems(v) == [i \in 1..v.length |-> Load(v.buf, i - 1)]

\* A run starts with the first push_back after anything else; base is what
\* the vec held before it.
RunAfterPush(r, v, val) ==
    IF r.on /\ r.popped = <<>>
    THEN [r EXCEPT !.pushed = Append(@, val)]
    ELSE [on |-> TRUE, base |-> Elems(v), pushed |-> <<val>>, popped |-> <<>>]

\* A run ends once as many values were popped as were pushed.
RunAfterPop(r, ret) ==
    IF r.on /\ Len(r.popped) < Len(r.pushed)
    THEN [r EXCEPT !.popped = Append(@, ret)]
    ELSE NoRun

\* ------------------------------------------------------------------------
\* Actions
\* ------------------------------------------------------------------------

Init ==
    /\ vec = NoVec
    /\ status = "uninit"
    /\ sizeof_type \in ElemSizes
    /\ last = NoCall
    /\ run = NoRun

\* The call has returned; the caller goes on to its next call.
Return ==
    /\ status = "live"
    /\ last # NoCall
    /\ last' = NoCall
    /\ UNCHANGED <<vec, status, sizeof_type, run>>

Construct ==
    /\ status = "uninit"
    /\ \E capacity \in SizeT, grow_mode \in GrowModes, grow_val \in GrowVals,
          ok \in BOOLEAN :
         Finish("init", <<capacity, grow_mode, grow_val>>,
                vec_init(vec, capacity, grow_mode, grow_val, ok))

Destroy ==
    /\ status = "live"
    /\ last = NoCall
    /\ Finish("deinit", <<>>, vec_deinit(vec))

PushBack ==
    /\ status = "live"
    /\ last = NoCall
    /\ \E val \in Vals, env \in Envs(vec) :
         Finish("push_back", <<val>>,
                vec_push_back(vec, val, env.ok, env.q, env.trap))

PopBack ==
    /\ status = "live"
    /\ last = NoCall
    /\ Finish("pop_back", <<>>, vec_pop_back(vec))

ShrinkToFit ==
    /\ status = "live"
    /\ last = NoCall
    /\ \E ok \in (IF vec.length = 0 THEN {TRUE} ELSE BOOLEAN) :
         Finish("shrink_to_fit", <<>>, vec_shrink_to_fit(vec, ok))

InsertAtShift ==
    /\ status = "live"
    /\ last = NoCall
    /\ \E val \in Vals, index \in Indices(vec.length), env \in Envs(vec) :
         Finish("insert_at_shift", <<val, index>>,
                vec_insert_at_shift(vec, val, index, env.ok, env.q, env.trap))

InsertAtSwap ==
    /\ status = "live"
    /\ last = NoCall
    /\ \E val \in Vals, index \in Indices(vec.length), env \in Envs(vec) :
         Finish("insert_at_swap", <<val, index>>,
                vec_insert_at_swap(vec, val, index, env.ok, env.q, env.trap))

RemoveAtShift ==
    /\ status = "live"
    /\ last = NoCall
    /\ \E index \in Indices(vec.length) :
         Finish("remove_at_shift", <<index>>, vec_remove_at_shift(vec, index))

RemoveAtSwap ==
    /\ status = "live"
    /\ last = NoCall
    /\ \E index \in Indices(vec.length) :
         Finish("remove_at_swap", <<index>>, vec_remove_at_swap(vec, index))

Next ==
    \/ Construct
    \/ Destroy
    \/ PushBack
    \/ PopBack
    \/ InsertAtShift
    \/ InsertAtSwap
    \/ RemoveAtShift
    \/ RemoveAtSwap
    \/ ShrinkToFit
    \/ Return

Spec == Init /\ [][Next]_vars

\* The calls of a caller that only pushes and pops (and shrinks in between),
\* with the history of the runs.
LifoPushBack ==
    /\ status = "live"
    /\ last = NoCall
    /\ \E val \in Vals, env \in Envs(vec) :
         /\ Step("push_back", <<val>>,
                 vec_push_back(vec, val, env.ok, env.q, env.trap))
         /\ run' = RunAfterPush(run, vec, val)

LifoPopBack ==
    /\ status = "live"
    /\ last = NoCall
    /\ Step("pop_back", <<>>, vec_pop_back(vec))
    /\ run' = RunAfterPop(run, vec_pop_back(vec).ret)

LifoShrinkToFit ==
    /\ status = "live"
    /\ last = NoCall
    /\ \E ok \in (IF vec.length = 0 THEN {TRUE} ELSE BOOLEAN) :
         Step("shrink_to_fit", <<>>, vec_shrink_to_fit(vec, ok))
    /\ run' = NoRun

NextLifo ==
    \/ Construct
    \/ LifoPushBack
    \/ LifoPopBack
    \/ LifoShrinkToFit
    \/ Return

SpecLifo == Init /\ [][NextLifo]_vars

\* The caller of the first part of the test, for any capacity, grow_val and
\* values: _init in add mode, one or more _push_back, as many _pop_back,
\* _shrink_to_fit on the emptied vec and one more _push_back.  run is the
\* sequence of the calls made, each with the length and capacity it left.
Made(op, args, r) ==
    [op |-> op, args |-> args, ret |-> r.ret,
     length |-> r.vec.length, capacity |-> r.vec.capacity]

Refill(op, args, r) ==
    /\ Step(op, args, r)
    /\ run' = Append(run, Made(op, args, r))

\* The calls of run that are calls of op.
CallsOf(op) == {k \in 1..Len(run) : run[k].op = op}

InitRefill ==
    /\ vec = NoVec
    /\ status = "uninit"
    /\ sizeof_type \in ElemSizes
    /\ last = NoCall
    /\ run = <<>>

RefillConstruct ==
    /\ status = "uninit"
    /\ \E capacity \in SizeT, grow_val \in GrowVals, ok \in BOOLEAN :
         Refill("init", <<capacity, VEC_GROW_MODE_ADD, grow_val>>,
                vec_init(vec, capacity, VEC_GROW_MODE_ADD, grow_val, ok))

RefillPushBack ==
    /\ status = "live"
    /\ last = NoCall
    /\ \/ /\ CallsOf("pop_back") = {}
          /\ Cardinality(CallsOf("push_back")) < MaxPushes
       \/ run[Len(run)].op = "shrink_to_fit"
    /\ \E val \in Vals, env \in Envs(vec) :
         Refill("push_back", <<val>>,
                vec_push_back(vec, val, env.ok, env.q, env.trap))

RefillPopBack ==
    /\ status = "live"
    /\ last = NoCall
    /\ run[Len(run)].op \in {"push_back", "pop_back"}
    /\ CallsOf("shrink_to_fit") = {}
    /\ vec.length > 0
    /\ Refill("pop_back", <<>>, vec_pop_back(vec))

RefillShrinkToFit ==
    /\ status = "live"
    /\ last = NoCall
    /\ run[Len(run)].op = "pop_back"
    /\ vec.length = 0
    /\ \E ok \in (IF vec.length = 0 THEN {TRUE} ELSE BOOLEAN) :
         Refill("shrink_to_fit", <<>>, vec_shrink_to_fit(vec, ok))

NextRefill ==
    \/ RefillConstruct
    \/ RefillPushBack
    \/ RefillPopBack
    \/ RefillShrinkToFit
    \/ Return

SpecRefill == InitRefill /\ [][NextRefill]_vars

\* ------------------------------------------------------------------------
\* Properties
\* ------------------------------------------------------------------------

\* The process has not been terminated (by exit or by a trap).
Running == status \in {"live", "corrupted"}

ValidPolicy(v) ==
    /\ v.grow_mode \in {VEC_GROW_MODE_MULTIPLY, VEC_GROW_MODE_ADD}
    /\ v.grow_val # 0
    /\ v.grow_mode = VEC_GROW_MODE_MULTIPLY => v.grow_val >= 2

Insertions == {"push_back", "insert_at_shift", "insert_at_swap"}

\* No load ever yields an indeterminate value: every element of a live vec
\* was written by calloc or by an insertion.
NoIndeterminateElement ==
    status = "live" => \A i \in 1..vec.length : Elems(vec)[i] \in Vals

\* C1: in every state of a process that has not terminated, reached by
\* _init with a valid growth policy and any calls after it,
\* length <= capacity <= VEC_MAX_CAPACITY.
C1_LengthCapacityMax ==
    (Running /\ ValidPolicy(vec)) =>
        (vec.length <= vec.capacity /\ vec.capacity <= VEC_MAX_CAPACITY)

\* C2: an insertion that grows a full vec (length = capacity <
\* VEC_MAX_CAPACITY, valid growth policy) leaves a capacity that is at most
\* VEC_MAX_CAPACITY, and exactly VEC_MAX_CAPACITY when the product or sum
\* does not fit the size type.
C2_GrowthSaturates ==
    (/\ last.op \in Insertions
     /\ Running
     /\ ValidPolicy(last.pre)
     /\ last.pre.length = last.pre.capacity
     /\ last.pre.capacity < VEC_MAX_CAPACITY)
    => LET exact == IF last.pre.grow_mode = VEC_GROW_MODE_MULTIPLY
                    THEN last.pre.capacity * last.pre.grow_val
                    ELSE last.pre.capacity + last.pre.grow_val
       IN /\ vec.capacity <= VEC_MAX_CAPACITY
          /\ exact > SIZE_MAX => vec.capacity = VEC_MAX_CAPACITY

\* C3: push_back on a vec of capacity 0 in multiply mode completes (unless the
\* allocator fails) and leaves length 1, capacity >= 1 and the value at
\* index 0.
C3_FirstPushOnZeroCapacityMultiply ==
    (/\ last.op = "push_back"
     /\ last.pre.capacity = 0
     /\ last.pre.length = 0
     /\ last.pre.grow_mode = VEC_GROW_MODE_MULTIPLY
     /\ status # "exited")
    => (/\ status = "live"
        /\ vec.length = 1
        /\ vec.capacity >= 1
        /\ Elems(vec) = <<last.args[1]>>)

\* C4: when _init(capacity, grow_mode, grow_val) returns, length is 0,
\* capacity, grow_mode and grow_val are the arguments and buf is non-null
\* exactly when capacity > 0.
C4_InitPostcondition ==
    (last.op = "init" /\ status = "live") =>
        (/\ vec.length = 0
         /\ vec.capacity = last.args[1]
         /\ vec.grow_mode = last.args[2]
         /\ vec.grow_val = last.args[3]
         /\ (vec.buf # NULL) <=> (last.args[1] > 0))

C4_Witness ==
    /\ last.op = "init"
    /\ status = "live"
    /\ last.args[1] > 0
    /\ vec.buf # NULL
    /\ vec.grow_mode = VEC_GROW_MODE_MULTIPLY

\* C5: _init exits when grow_val is 0 or when the mode is multiply and
\* grow_val < 2; a running process has grow_val # 0 and, in multiply mode,
\* grow_val >= 2; no call after _init changes grow_mode or grow_val.
C5_GrowPolicyFixedAndValid ==
    /\ (/\ last.op = "init"
        /\ \/ last.args[3] = 0
           \/ last.args[2] = VEC_GROW_MODE_MULTIPLY /\ last.args[3] < 2)
       => status = "exited"
    /\ Running =>
        (/\ vec.grow_val # 0
         /\ vec.grow_mode = VEC_GROW_MODE_MULTIPLY => vec.grow_val >= 2)
    /\ last.op \notin {"none", "init"} =>
        (/\ vec.grow_mode = last.pre.grow_mode
         /\ vec.grow_val = last.pre.grow_val)

C5_Witness ==
    /\ last.op = "init"
    /\ last.args[2] = VEC_GROW_MODE_MULTIPLY
    /\ last.args[3] = 1
    /\ last.args[1] = 0
    /\ status = "exited"

\* C6: in every state of a running process the buffer is non-null exactly
\* when capacity > 0.
C6_BufNonNullIffCapacity ==
    Running => ((vec.buf # NULL) <=> (vec.capacity > 0))

C6_Witness ==
    /\ last.op = "shrink_to_fit"
    /\ status = "live"
    /\ last.pre.capacity > 0
    /\ last.pre.buf # NULL
    /\ vec.capacity = 0
    /\ vec.buf = NULL

\* C8: _pop_back on an empty vec exits and leaves the struct as it was; on a
\* non-empty vec it returns the element at index length - 1, lowers length by
\* exactly 1 and leaves capacity and the elements before it as they were.
C8_PopBack ==
    last.op = "pop_back" =>
        IF last.pre.length = 0
        THEN status = "exited" /\ vec = last.pre
        ELSE /\ status = "live"
             /\ last.ret = Elems(last.pre)[last.pre.length]
             /\ vec.length = last.pre.length - 1
             /\ vec.capacity = last.pre.capacity
             /\ Elems(vec) = SubSeq(Elems(last.pre), 1, last.pre.length - 1)

C8_Witness ==
    /\ last.op = "pop_back"
    /\ status = "live"
    /\ last.pre.length >= 2
    /\ last.ret = 1
    /\ Elems(vec)[1] = 0

C8_WitnessEmpty ==
    /\ last.op = "pop_back"
    /\ last.pre.length = 0
    /\ last.pre.capacity > 0
    /\ status = "exited"

\* C7: n push_back calls with values v1..vn followed by pop_back calls give
\* back vn, ..., v1 in that order, and what the vec held before the pushes
\* stays in place below them.
C7_PushPopLifo ==
    (Running /\ run.on) =>
        LET n == Len(run.pushed)
            k == Len(run.popped)
        IN /\ \A j \in 1..k : run.popped[j] = run.pushed[n + 1 - j]
           /\ Elems(vec) = run.base \o SubSeq(run.pushed, 1, n - k)

\* C7 on the runs in which every call returned with all its stores inside
\* the block.
C7_PushPopLifoCompleted ==
    status = "live" => C7_PushPopLifo

\* The vec with x inserted at C index i of the sequence s.
InsertedAt(s, i, x) == SubSeq(s, 1, i) \o <<x>> \o SubSeq(s, i + 1, Len(s))

\* C9: _insert_at_shift(val, i) with 0 <= i <= n on a vec holding s of length
\* n leaves s[0..i-1] ++ [val] ++ s[i..n-1] and length n + 1, also when the
\* insertion grows the buffer.
C9_InsertAtShift ==
    (/\ last.op = "insert_at_shift"
     /\ last.args[2] <= last.pre.length
     /\ Running)
    => (/\ vec.length = last.pre.length + 1
        /\ Elems(vec) = InsertedAt(Elems(last.pre), last.args[2], last.args[1]))

\* C9 on the calls that returned with all their stores inside the block.
C9_InsertAtShiftCompleted ==
    status = "live" => C9_InsertAtShift

\* C10: _insert_at_swap(val, i) with 0 <= i < n on a vec holding s of length
\* n leaves length n + 1, val at index i, the former s[i] at index n and
\* every other index below n as it was.
C10_InsertAtSwap ==
    (/\ last.op = "insert_at_swap"
     /\ last.args[2] < last.pre.length
     /\ Running)
    => LET s == Elems(last.pre)
           n == last.pre.length
           i == last.args[2]
       IN /\ vec.length = n + 1
          /\ Elems(vec) = [j \in 1..(n + 1) |->
                             IF j = i + 1 THEN last.args[1]
                             ELSE IF j = n + 1 THEN s[i + 1]
                             ELSE s[j]]

\* C10 on the calls that returned with all their stores inside the block.
C10_InsertAtSwapCompleted ==
    status = "live" => C10_InsertAtSwap

\* The call recorded in last ended as r tells.
EndedAs(r) == r.vec = vec /\ After(r.st) = status /\ r.ret = last.ret

\* C11: _insert_at_shift(val, length) and _insert_at_swap(val, length) end
\* exactly as _push_back(val) does from the same struct: the same buf,
\* length and capacity, the same exits and traps; and every end of
\* _push_back(val) is an end of both.
C11_InsertAtLengthIsPushBack ==
    /\ (/\ last.op \in {"insert_at_shift", "insert_at_swap"}
        /\ last.args[2] = last.pre.length)
       => \E env \in Envs(last.pre) :
            EndedAs(vec_push_back(last.pre, last.args[1],
                                  env.ok, env.q, env.trap))
    /\ last.op = "push_back"
       => \E env \in Envs(last.pre) :
            /\ EndedAs(vec_insert_at_shift(last.pre, last.args[1],
                         last.pre.length, env.ok, env.q, env.trap))
            /\ EndedAs(vec_insert_at_swap(last.pre, last.args[1],
                         last.pre.length, env.ok, env.q, env.trap))

\* An append by _insert_at_shift that grew the buffer of a full vec.
C11_Witness ==
    /\ last.op = "insert_at_shift"
    /\ last.args[2] = last.pre.length
    /\ last.pre.length = last.pre.capacity
    /\ last.pre.length >= 1
    /\ status = "live"
    /\ vec.capacity > last.pre.capacity

\* An append by _insert_at_swap that ended in exit(1).
C11_WitnessSwapExit ==
    /\ last.op = "insert_at_swap"
    /\ last.args[2] = last.pre.length
    /\ last.pre.length >= 1
    /\ status = "exited"

\* The process was terminated by the call: by exit(1) or by a trap.
Terminated == status \in {"exited", "crashed"}

InsertionsAt == {"insert_at_shift", "insert_at_swap"}

RemovalsAt == {"remove_at_shift", "remove_at_swap"}

\* C12 as stated: on a vec with a valid growth policy _insert_at_shift and
\* _insert_at_swap terminate the process exactly when index > length, _remove_at_shift and _remove_at_swap exactly
\* when index >= length, and a call that fails the check of index leaves
\* buf, length and capacity as they were.
C12_IndexCheckExactly ==
    /\ (last.op \in InsertionsAt /\ ValidPolicy(last.pre)) =>
         /\ Terminated <=> last.args[2] > last.pre.length
         /\ last.args[2] > last.pre.length => vec = last.pre
    /\ (last.op \in RemovalsAt /\ ValidPolicy(last.pre)) =>
         /\ Terminated <=> last.args[1] >= last.pre.length
         /\ last.args[1] >= last.pre.length => vec = last.pre

\* C12 amended: an insertion with index > length exits with the struct as it
\* was; an insertion with index <= length does not terminate the process
\* unless the vec was full, so that it had to grow first; a removal exits
\* exactly when index >= length, with the struct as it was, and returns
\* otherwise.
C12_IndexCheck ==
    /\ last.op \in InsertionsAt =>
         /\ last.args[2] > last.pre.length
            => (status = "exited" /\ vec = last.pre)
         /\ (last.args[2] <= last.pre.length /\ status # "live")
            => last.pre.length = last.pre.capacity
    /\ last.op \in RemovalsAt =>
         IF last.args[1] >= last.pre.length
         THEN status = "exited" /\ vec = last.pre
         ELSE status = "live"

\* An insertion into a full vec that fails the check of index.
C12_Witness ==
    /\ last.op = "insert_at_swap"
    /\ last.pre.length = last.pre.capacity
    /\ last.pre.length >= 1
    /\ last.pre.capacity < VEC_MAX_CAPACITY
    /\ last.args[2] = last.pre.length + 1
    /\ status = "exited"

\* A removal at index 0 from an empty vec that has a buffer.
C12_WitnessRemoveEmpty ==
    /\ last.op = "remove_at_shift"
    /\ last.pre.length = 0
    /\ last.pre.capacity > 0
    /\ last.args[1] = 0
    /\ status = "exited"

\* An insertion at a valid index that exits: the vec was full.
C12_WitnessValidIndexExit ==
    /\ last.op = "insert_at_shift"
    /\ last.args[2] < last.pre.length
    /\ status = "exited"

\* The sequence s without its element at C index i.
RemovedAt(s, i) == SubSeq(s, 1, i) \o SubSeq(s, i + 2, Len(s))

\* C13: _remove_at_shift(i) with 0 <= i < n on a vec holding s of length n
\* returns s[i] and leaves s[0..i-1] ++ s[i+1..n-1], of length n - 1.
C13_RemoveAtShift ==
    (last.op = "remove_at_shift" /\ last.args[1] < last.pre.length)
    => (/\ status = "live"
        /\ last.ret = Elems(last.pre)[last.args[1] + 1]
        /\ vec.length = last.pre.length - 1
        /\ Elems(vec) = RemovedAt(Elems(last.pre), last.args[1]))

\* A removal from the middle of a vec whose neighbours differ.
C13_Witness ==
    /\ last.op = "remove_at_shift"
    /\ last.pre.length >= 3
    /\ last.args[1] = 1
    /\ Elems(last.pre)[1] = 0
    /\ Elems(last.pre)[2] = 1
    /\ Elems(last.pre)[3] = 0
    /\ status = "live"
    /\ last.ret = 1

\* C14: _remove_at_swap(i) with 0 <= i < n on a vec holding s of length n
\* returns s[i] and leaves length n - 1 with the former last element s[n-1]
\* at index i (when i < n - 1) and every other index below n - 1 as it was;
\* for i = n - 1 what remains is s[0..n-2].
C14_RemoveAtSwap ==
    (last.op = "remove_at_swap" /\ last.args[1] < last.pre.length)
    => LET s == Elems(last.pre)
           n == last.pre.length
           i == last.args[1]
       IN /\ status = "live"
          /\ last.ret = s[i + 1]
          /\ vec.length = n - 1
          /\ Elems(vec) = [j \in 1..(n - 1) |->
                             IF j = i + 1 THEN s[n] ELSE s[j]]
          /\ i = n - 1 => Elems(vec) = SubSeq(s, 1, n - 1)

\* A removal at index 0 of a vec of three or more elements whose last two
\* elements differ from each other.
C14_Witness ==
    /\ last.op = "remove_at_swap"
    /\ last.pre.length >= 3
    /\ last.args[1] = 0
    /\ Elems(last.pre)[last.pre.length] = 1
    /\ Elems(last.pre)[last.pre.length - 1] = 0
    /\ Elems(last.pre)[1] = 0
    /\ status = "live"
    /\ Elems(vec)[1] = 1

\* A removal of the last element.
C14_WitnessLast ==
    /\ last.op = "remove_at_swap"
    /\ last.pre.length >= 2
    /\ last.args[1] = last.pre.length - 1
    /\ status = "live"

\* C15: when _shrink_to_fit returns, capacity = length, the length and the
\* elements at 0..length-1 are as before, and buf is null exactly when
\* length = 0; it always returns on an empty vec and otherwise returns
\* unless the allocator fails.
C15_ShrinkToFit ==
    last.op = "shrink_to_fit" =>
        /\ status \in {"live", "exited"}
        /\ last.pre.length = 0 => status = "live"
        /\ status = "live" =>
             /\ vec.capacity = vec.length
             /\ vec.length = last.pre.length
             /\ Elems(vec) = Elems(last.pre)
             /\ (vec.buf = NULL) <=> (vec.length = 0)
             /\ Len(vec.buf) = vec.length

\* A shrink of a vec that holds elements and has unused slots.
C15_Witness ==
    /\ last.op = "shrink_to_fit"
    /\ status = "live"
    /\ last.pre.length >= 2
    /\ last.pre.capacity > last.pre.length
    /\ Elems(last.pre)[1] = 1
    /\ Elems(last.pre)[2] = 0
    /\ vec.capacity = last.pre.length

\* A shrink of an empty vec that has a buffer.
C15_WitnessEmpty ==
    /\ last.op = "shrink_to_fit"
    /\ status = "live"
    /\ last.pre.length = 0
    /\ last.pre.buf # NULL
    /\ vec.buf = NULL

\* C16: an insertion on a vec with length = capacity = VEC_MAX_CAPACITY
\* terminates the process by exit(1), with buf, length and capacity as they
\* were.
C16_InsertionAtCeiling ==
    (/\ last.op \in Insertions
     /\ last.pre.length = VEC_MAX_CAPACITY
     /\ last.pre.capacity = VEC_MAX_CAPACITY)
    => (status = "exited" /\ vec = last.pre)

\* An insertion at a valid index into a vec that is full at the ceiling.
C16_Witness ==
    /\ last.op = "insert_at_shift"
    /\ last.pre.length = VEC_MAX_CAPACITY
    /\ last.pre.capacity = VEC_MAX_CAPACITY
    /\ Len(last.pre.buf) = VEC_MAX_CAPACITY
    /\ last.args[2] = 1
    /\ status = "exited"

\* C17: in a process that has not terminated, _pop_back, _remove_at_shift
\* and _remove_at_swap leave capacity as it was and no insertion lowers it:
\* only _shrink_to_fit and _deinit lower the capacity.
C17_NoAutomaticShrinking ==
    Running =>
        /\ last.op \in {"pop_back", "remove_at_shift", "remove_at_swap"}
           => vec.capacity = last.pre.capacity
        /\ last.op \in Insertions => vec.capacity >= last.pre.capacity
        /\ vec.capacity < last.pre.capacity
           => last.op \in {"shrink_to_fit", "deinit"}

\* C17 on the calls that returned with all their stores inside the block.
C17_NoAutomaticShrinkingCompleted ==
    status = "live" => C17_NoAutomaticShrinking

\* C18: _deinit returns with buf null, capacity 0 and length 0, having
\* passed the buffer to free; a second _deinit right after it leaves the
\* struct exactly as the first one left it and passes a null pointer to
\* free, which releases nothing.
C18_DeinitIdempotent ==
    last.op = "deinit" =>
        /\ status = "live"
        /\ vec.buf = NULL
        /\ vec.capacity = 0
        /\ vec.length = 0
        /\ Releases(last.pre.buf) <=> (last.pre.capacity > 0)
        /\ vec_deinit(vec) = Res(vec, "ok", Void)
        /\ ~Releases(vec.buf)

\* A _deinit of a vec that holds elements.
C18_Witness ==
    /\ last.op = "deinit"
    /\ last.pre.length >= 2
    /\ Releases(last.pre.buf)
    /\ status = "live"
    /\ vec.buf = NULL

\* A _deinit of a vec in the state a _deinit leaves.
C18_WitnessSecond ==
    /\ last.op = "deinit"
    /\ last.pre.buf = NULL
    /\ last.pre.capacity = 0
    /\ last.pre.length = 0
    /\ vec = last.pre

\* The calls of the test's first part: one push_back before the pop_back.
ScenarioA == <<"init", "push_back", "pop_back", "shrink_to_fit", "push_back">>

\* Call k of run returned, or at least did not terminate the process.
Went(k) == k < Len(run) \/ Running

C19_WitnessGrown ==
    /\ Len(run) = 7
    /\ run[1].args[1] = 1
    /\ run[3].capacity = 3
    /\ run[5].capacity = 3
    /\ run[5].length = 0
    /\ run[6].capacity = 0
    /\ status = "live"
    /\ vec.capacity = 2

\* C20: an insertion that does not terminate the process changes capacity
\* exactly when length = capacity right before it; when length < capacity
\* the capacity and the block are as they were but for the stored elements.
C20_CapacityChangesIffFull ==
    (/\ last.op \in Insertions
     /\ ValidPolicy(last.pre)
     /\ Running)
    => (/\ (vec.capacity # last.pre.capacity)
           <=> (last.pre.length = last.pre.capacity)
        /\ last.pre.length < last.pre.capacity
           => Len(vec.buf) = Len(last.pre.buf))

\* C20 on the calls that returned with all their stores inside the block.
C20_CapacityChangesIffFullCompleted ==
    status = "live" => C20_CapacityChangesIffFull

\* C21: every call on a live vec ends: it returns or the process is
\* terminated; the loop of _insert_at_shift runs length - index - 1 times and
\* the loop of _remove_at_shift length - 1 - index times, at most length
\* times for every index the functions accept, 0 and length - 1 included.
C21_CallsEnd ==
    /\ last.op # "none" =>
         status \in {"live", "exited", "crashed", "corrupted"}
    /\ (last.op = "insert_at_shift" /\ last.args[2] < last.pre.length) =>
         LET n == ShiftUpIterations(last.pre.length, last.args[2], 0)
         IN /\ n = last.pre.length - last.args[2] - 1
            /\ n <= last.pre.length
    /\ (last.op = "remove_at_shift" /\ last.args[1] < last.pre.length) =>
         LET n == ShiftDownIterations(last.args[1],
                                      Wrap(last.pre.length - 1), 0)
         IN /\ n = last.pre.length - 1 - last.args[1]
            /\ n <= last.pre.length

\* An _insert_at_shift at index 0 of a vec of three or more elements.
C21_Witness ==
    /\ last.op = "insert_at_shift"
    /\ last.args[2] = 0
    /\ last.pre.length >= 3
    /\ status = "live"

\* A _remove_at_shift at index 0 of a vec of three or more elements.
C21_WitnessRemove ==
    /\ last.op = "remove_at_shift"
    /\ last.args[1] = 0
    /\ last.pre.length >= 3
    /\ status = "live"

\* C22: an insertion into a full vec whose grow_mode is neither multiply nor
\* add terminates the process by exit(1) with length, capacity and the
\* elements as they were; no such vec is alive after an insertion that had
\* to grow it.
C22_UnknownGrowMode ==
    (/\ last.op \in Insertions
     /\ last.pre.grow_mode \notin {VEC_GROW_MODE_MULTIPLY, VEC_GROW_MODE_ADD}
     /\ last.pre.length = last.pre.capacity)
    => (status = "exited" /\ vec = last.pre)

\* An insertion at a valid index into a full vec of two elements that was
\* built with an unknown grow_mode.
C22_Witness ==
    /\ last.op = "insert_at_swap"
    /\ last.pre.grow_mode = 3
    /\ last.pre.length = 2
    /\ last.pre.capacity = 2
    /\ last.args[2] = 1
    /\ status = "exited"

\* C23: in add mode, a growing insertion into a full vec of capacity
\* c < VEC_MAX_CAPACITY with any grow_val g >= 1 leaves the capacity
\* min(c + g, VEC_MAX_CAPACITY), the sum taken over the integers.
C23_AddSaturates ==
    (/\ last.op \in Insertions
     /\ Running
     /\ last.pre.grow_mode = VEC_GROW_MODE_ADD
     /\ last.pre.grow_val >= 1
     /\ last.pre.length = last.pre.capacity
     /\ last.pre.capacity < VEC_MAX_CAPACITY)
    => LET sum == last.pre.capacity + last.pre.grow_val
       IN vec.capacity = IF sum < VEC_MAX_CAPACITY THEN sum
                         ELSE VEC_MAX_CAPACITY

\* C23 for the values of grow_val up to VEC_MAX_CAPACITY.
C23_AddSaturatesUpToCeiling ==
    last.pre.grow_val <= VEC_MAX_CAPACITY => C23_AddSaturates

C24_WitnessFits ==
    /\ last.op \in Insertions
    /\ status = "live"
    /\ last.pre.grow_mode = VEC_GROW_MODE_MULTIPLY
    /\ last.pre.length = last.pre.capacity
    /\ last.pre.capacity = 2
    /\ vec.capacity = 4

\* C25: when an insertion or _shrink_to_fit has set a capacity whose byte
\* count sizeof(type) * capacity does not fit the size type, the process
\* exits and the allocator is not called (buf is as it was); in a process
\* that goes on the byte count of the capacity fits and the block has
\* exactly that many bytes.
C25_ByteCountChecked ==
    /\ (/\ last.op \in Insertions \cup {"shrink_to_fit"}
        /\ sizeof_type * vec.capacity > SIZE_MAX)
       => (status = "exited" /\ vec.buf = last.pre.buf)
    /\ Running =>
         /\ sizeof_type * vec.capacity <= SIZE_MAX
         /\ Len(vec.buf) * sizeof_type = sizeof_type * vec.capacity

\* A growth by a factor to a capacity whose byte count does not fit, of a
\* vec of elements of more than one byte.
C25_Witness ==
    /\ last.op = "push_back"
    /\ sizeof_type >= 2
    /\ last.pre.length = last.pre.capacity
    /\ last.pre.capacity >= 1
    /\ vec.capacity > last.pre.capacity
    /\ sizeof_type * vec.capacity > SIZE_MAX
    /\ status = "exited"

\* A growth whose byte count fits and whose block was granted.
C25_WitnessFits ==
    /\ last.op = "push_back"
    /\ sizeof_type >= 2
    /\ last.pre.length = last.pre.capacity
    /\ vec.capacity = 2
    /\ Len(vec.buf) = 2
    /\ status = "live"

C27_RemovalLoadsInBounds ==
    /\ (last.op \in RemovalsAt /\ last.args[1] < last.pre.length) =>
         /\ last.pre.buf # NULL
         /\ last.args[1] < Len(last.pre.buf)
         /\ last.pre.length - 1 < Len(last.pre.buf)
         /\ last.ret \in Vals
    /\ (last.op = "remove_at_shift" /\ last.args[1] < last.pre.length) =>
         \A i \in last.args[1]..(last.pre.length - 2) :
              i + 1 < Len(last.pre.buf)
    /\ (last.op = "pop_back" /\ last.pre.length > 0) =>
         /\ last.pre.buf # NULL
         /\ last.pre.length - 1 < Len(last.pre.buf)
         /\ last.ret \in Vals

\* C27: in every call on a reachable vec with a valid growth policy, every
\* slot that is read or written has an index below the number of slots of
\* the block (after any growth) and buf is not null then: no insertion
\* stores outside the block, each insertion that returns has stored below
\* the capacity, and the loads of the removals are inside the block.
C27_AccessesInBounds ==
    /\ (last.op \in Insertions /\ ValidPolicy(last.pre)) =>
         /\ status # "corrupted"
         /\ status = "crashed" =>
              (/\ last.pre.capacity = 0
               /\ last.pre.grow_mode = VEC_GROW_MODE_MULTIPLY)
         /\ Running =>
              (/\ vec.buf # NULL
               /\ last.pre.length < Len(vec.buf)
               /\ Len(vec.buf) = vec.capacity)
    /\ C27_RemovalLoadsInBounds

\* C27 on the insertions that did not have to grow the buffer.
C27_AccessesInBoundsWithoutGrowth ==
    last.pre.length < last.pre.capacity => C27_AccessesInBounds

\* C28: an insertion into a vec with a valid growth policy that got past
\* _ensure_space finds length < capacity, and when the vec was full the
\* capacity is larger than it was.
C28_GrowthStrictlyIncreases ==
    (/\ last.op \in Insertions
     /\ ValidPolicy(last.pre)
     /\ Running)
    => (/\ last.pre.length < vec.capacity
        /\ last.pre.length = last.pre.capacity
           => vec.capacity > last.pre.capacity)

\* C28 on the calls that returned with all their stores inside the block.
C28_GrowthStrictlyIncreasesCompleted ==
    status = "live" => C28_GrowthStrictlyIncreases

\* The vec r holds what v held, and val was returned.
RestoredBy(r, v, val) ==
    /\ r.st = "ok"
    /\ r.ret = val
    /\ r.vec.length = v.length
    /\ Elems(r.vec) = Elems(v)

\* C29 for insertions that ended in one of the ends of sts: from every live
\* vec with a valid growth policy, _insert_at_shift(val, i) with i <= length
\* followed by _remove_at_shift(i), and _insert_at_swap(val, i) with
\* i < length followed by _remove_at_swap(i), return val and leave the
\* elements and the length as they were before the insertion.
RoundTrip(sts) ==
    (status = "live" /\ ValidPolicy(vec)) =>
        \A val \in Vals, env \in Envs(vec) :
            /\ \A i \in 0..vec.length :
                 LET r == vec_insert_at_shift(vec, val, i,
                                              env.ok, env.q, env.trap)
                 IN r.st \in sts =>
                      RestoredBy(vec_remove_at_shift(r.vec, i), vec, val)
            /\ \A i \in 0..(vec.length - 1) :
                 LET r == vec_insert_at_swap(vec, val, i,
                                             env.ok, env.q, env.trap)
                 IN r.st \in sts =>
                      RestoredBy(vec_remove_at_swap(r.vec, i), vec, val)

\* C29: the round trip for every insertion after which the process goes on.
C29_InsertRemoveRoundTrip == RoundTrip({"ok", "corrupt"})

\* C29 on the insertions that returned with all their stores inside the
\* block.
C29_InsertRemoveRoundTripCompleted == RoundTrip({"ok"})

\* C30: _deinit leaves grow_mode and grow_val as they were and the process
\* alive, and the struct it leaves is the struct that
\* _init(0, grow_mode, grow_val) builds, so that every call after it ends as
\* it does on that fresh vec; in add mode a _push_back after it that returns
\* leaves length 1 and capacity grow_val, and it returns whenever the
\* allocator grants the block.
C30_DeinitIsFreshInit ==
    last.op = "deinit" =>
        /\ status = "live"
        /\ vec.grow_mode = last.pre.grow_mode
        /\ vec.grow_val = last.pre.grow_val
        /\ \A ok \in BOOLEAN :
             vec_init(NoVec, 0, vec.grow_mode, vec.grow_val, ok)
                = Res(vec, "ok", Void)
        /\ vec.grow_mode = VEC_GROW_MODE_ADD =>
             \A val \in Vals, env \in Envs(vec) :
                LET r == vec_push_back(vec, val, env.ok, env.q, env.trap)
                IN /\ r.st \in {"ok", "exit"}
                   /\ r.st = "ok" =>
                        /\ r.vec.length = 1
                        /\ r.vec.capacity = vec.grow_val
                        /\ Elems(r.vec) = <<val>>
                   /\ (env.ok /\ sizeof_type * vec.grow_val <= SIZE_MAX)
                      => r.st = "ok"

\* A _deinit of a vec in add mode that held elements in a buffer larger than
\* grow_val.
C30_Witness ==
    /\ last.op = "deinit"
    /\ last.pre.length >= 1
    /\ last.pre.capacity > last.pre.grow_val
    /\ last.pre.grow_mode = VEC_GROW_MODE_ADD
    /\ vec.grow_val = 2
    /\ vec.capacity = 0
    /\ status = "live"

\* A _push_back, in add mode, on a struct as a _deinit leaves it.
C30_WitnessPushAfterDeinit ==
    /\ last.op = "push_back"
    /\ last.pre.capacity = 0
    /\ last.pre.grow_mode = VEC_GROW_MODE_ADD
    /\ last.pre.grow_val = 2
    /\ vec.capacity = 2
    /\ status = "live"

====
